---- MODULE Spec2Model ----
(***************************************************************************)
(* State-machine model of sys_futex (api/src/syscall/sync/futex.rs) and of *)
(* the futex table / wait queue engine it drives.  Threads of one process  *)
(* issue futex system calls concurrently; user space stores to the watched *)
(* words between calls.                                                    *)
(***************************************************************************)
EXTENDS Integers, Sequences, FiniteSets, TLC

(* ---------------------------------------------------------------------- *)
(* Bounds of the model                                                    *)
(* ---------------------------------------------------------------------- *)
\* threads that call FUTEX_WAIT / FUTEX_WAIT_BITSET, once each
NWaiters == 3
\* threads that make the other calls, and the number of calls they make
NOperators == 2
MaxOps == 2
MaxCalls == 1
MaxIo == 2
MaxFileLen == 2

Waiters == 1..NWaiters
Operators == (NWaiters + 1)..(NWaiters + NOperators)
Threads == Waiters \cup Operators

(* ---------------------------------------------------------------------- *)
(* Inputs                                                                 *)
(* ---------------------------------------------------------------------- *)
\* user addresses of futex words that are mapped readable, and one that is not
MappedAddrs == {16, 32}
UnmappedAddrs == {48}
Addrs == MappedAddrs \cup UnmappedAddrs
MemValues == {0, 1}

\* A u32 is held as the i32 that has the same 32 bits (the model checker's
\* integers are 32 bits wide): 0 .. 2^31-1 are themselves, and a negative
\* number x stands for the u32 x + 2^32.
U32Max == -1

\* the `value` argument: the expected word for WAIT, a count otherwise
ValueArgs == {0, 1, 2, U32Max}
\* the `value3` argument: a bitset for *_BITSET, the expected word for
\* CMP_REQUEUE
Value3Args == {0, 1, 2}
\* the `timeout` argument: a 64-bit user pointer, as its upper 32 bits `hi`
\* and its lower 32 bits `lo` (hi = lo = 0 is NULL), together with what a read
\* of a timespec through it finds
TimeoutArgs ==
    {[hi |-> 0, lo |-> 0, readable |-> FALSE, tv_sec |-> 0, tv_nsec |-> 0],
     [hi |-> 0, lo |-> 1, readable |-> FALSE, tv_sec |-> 0, tv_nsec |-> 0],
     [hi |-> 0, lo |-> 64, readable |-> TRUE, tv_sec |-> 1, tv_nsec |-> 0],
     [hi |-> 0, lo |-> 64, readable |-> TRUE, tv_sec |-> -1, tv_nsec |-> 0],
     [hi |-> 0, lo |-> 64, readable |-> TRUE, tv_sec |-> 0, tv_nsec |-> 1000000000],
     [hi |-> 0, lo |-> 64, readable |-> TRUE, tv_sec |-> 0, tv_nsec |-> -1]}
\* REQUEUE reads the pointer as a count and never reads through it
CountAsPointer(hi, lo) ==
    [hi |-> hi, lo |-> lo, readable |-> FALSE, tv_sec |-> 0, tv_nsec |-> 0]
RequeueTimeoutArgs ==
    {CountAsPointer(0, lo) : lo \in {0, 1, 5, U32Max}} \cup {CountAsPointer(1, 0)}

(* ---------------------------------------------------------------------- *)
(* Operation codes (linux_raw_sys::general)                               *)
(* ---------------------------------------------------------------------- *)
FUTEX_WAIT == 0
FUTEX_WAKE == 1
FUTEX_FD == 2
FUTEX_REQUEUE == 3
FUTEX_CMP_REQUEUE == 4
FUTEX_WAIT_BITSET == 9
FUTEX_WAKE_BITSET == 10
FUTEX_PRIVATE_FLAG == 128
FUTEX_CLOCK_REALTIME == 256

AllFutexOps ==
    {FUTEX_WAIT, FUTEX_WAKE, FUTEX_FD, FUTEX_REQUEUE, FUTEX_CMP_REQUEUE,
     FUTEX_WAIT_BITSET, FUTEX_WAKE_BITSET,
     FUTEX_WAKE + FUTEX_PRIVATE_FLAG,
     FUTEX_WAIT_BITSET + FUTEX_PRIVATE_FLAG + FUTEX_CLOCK_REALTIME,
     FUTEX_WAKE + 2 * FUTEX_CLOCK_REALTIME}

CommandLowBits(futex_op) == futex_op % FUTEX_PRIVATE_FLAG

\* futex_op & FUTEX_CMD_MASK: the private and clock flags are cleared
Command(futex_op) ==
    LET low == futex_op % FUTEX_PRIVATE_FLAG
        high == futex_op \div (2 * FUTEX_CLOCK_REALTIME)
    IN high * (2 * FUTEX_CLOCK_REALTIME) + low

\* the values of futex_op that select the given commands
FutexOps(commands) == {op \in AllFutexOps : Command(op) \in commands}
WaitCommands == {FUTEX_WAIT, FUTEX_WAIT_BITSET}
WakeCommands == {FUTEX_WAKE, FUTEX_WAKE_BITSET}
RequeueCommands == {FUTEX_REQUEUE, FUTEX_CMP_REQUEUE}

(* ---------------------------------------------------------------------- *)
(* Results (AxResult)                                                     *)
(* ---------------------------------------------------------------------- *)
Ok(v) == [err |-> "Ok", val |-> v]
Err(e) == [err |-> e, val |-> 0]
IsOk(r) == r.err = "Ok"
NoResult == [err |-> "None", val |-> 0]

Min(a, b) == IF a <= b THEN a ELSE b

(* ---------------------------------------------------------------------- *)
(* 32-bit helpers                                                         *)
(* ---------------------------------------------------------------------- *)
I32Max == 2147483647
\* bits 0..30 of x, as a number in 0..I32Max
Low31(x) == IF x < 0 THEN (x + I32Max) + 1 ELSE x
\* a & b != 0 for a, b in 0..I32Max
RECURSIVE AndNonZero(_, _)
AndNonZero(a, b) ==
    IF a = 0 \/ b = 0 THEN FALSE
    ELSE IF a % 2 = 1 /\ b % 2 = 1 THEN TRUE
    ELSE AndNonZero(a \div 2, b \div 2)
\* a & b != 0 on u32; bit 31 is the sign of the i32
Intersects(a, b) ==
    \/ a < 0 /\ b < 0
    \/ AndNonZero(Low31(a), Low31(b))
\* ptr.addr() as u32: the lower 32 bits
AddrAsU32(ptr) == ptr.lo
\* n - 1 on a usize that came from a u32: a negative n stands for a count of
\* at least 2^31, which no queue of the model exhausts
CountDec(n) == IF n < 0 THEN n ELSE n - 1

AssertUnsignedAny(value) == Ok(value)
\* lines 17..23: assert_unsigned
AssertUnsigned(value) ==
    IF value < 0 THEN Err("InvalidInput") ELSE Ok(value)

(* ---------------------------------------------------------------------- *)
(* State                                                                  *)
(* ---------------------------------------------------------------------- *)
VARIABLES
    mem,        \* the user words: [MappedAddrs -> MemValues]
    table,      \* keys that have a Futex object in the process's futex table
    wq,         \* per key, the Futex's wait queue: Seq([t, mask]), oldest first
    owner_dead, \* per key, the Futex's owner_dead flag
    pc,         \* per thread, where it is inside sys_futex
    cur,        \* per thread, the locals of the call in progress; `via` is
                \* history: the key whose queue a woken waiter was taken from
    last,       \* the result returned by the latest step; NoResult when the
                \* latest step returned from no call
    nops,       \* number of calls the operators may still issue
    held,       \* per thread, the locks it holds between two of its steps
    umem,       \* the bytes user space wrote near the end of the first page
    acc,        \* the Oracle: per page, the access flags of its mapping
    populated,  \* the pages that have physical backing
    is_thread,  \* the current task has a process (curr.try_as_thread())
    marker,     \* the access-span marker of the thread
    vpc,        \* where the thread is inside the validator
    vcall,      \* the arguments and locals of the latest validator call
    ret,        \* the result of the latest validator call
    fault_ret,  \* {b} when the latest step was handle_page_fault returning b
    trace,      \* history: Oracle calls and element reads of the latest call
    ncalls,     \* number of validator calls the thread may still make
    file,       \* the bytes of the open file
    ubuf,       \* the bytes of the user buffers the iovecs point into
    io_ret,     \* the result of the latest positional write call
    nio         \* number of positional write calls that may still be made

futexVars == <<mem, table, wq, owner_dead, pc, cur, last, nops, held>>
mmVars == <<umem, acc, populated, is_thread, marker, vpc, vcall, ret, fault_ret,
            trace, ncalls>>
ioVars == <<file, ubuf, io_ret, nio>>
vars == <<futexVars, mmVars, ioVars>>

Keys == Addrs
NoKey == 0

NoCall ==
    [uaddr |-> NoKey, value |-> 0, bitset |-> 0, timer |-> FALSE,
     uaddr2 |-> NoKey, value2 |-> 0, count |-> 0, via |-> NoKey]

\* the lock of the process's futex table and the lock of a key's wait queue
TableLock == <<"table", NoKey>>
QueueLock(k) == <<"wq", k>>
Locks == {TableLock} \cup {QueueLock(k) : k \in Keys}
\* thread t can take the locks: no other thread holds one of them
Free(t, locks) == \A u \in Threads \ {t} : held[u] \cap locks = {}

FutexKeyOfProcess(addr) == CHOOSE k \in Keys : TRUE
\* FutexKey::new_current(addr): one process, private mappings: the address
FutexKey(addr) == addr

\* uaddr.vm_read(): the word, or a fault for an address that is not mapped
VmRead(m, uaddr) ==
    IF uaddr \in MappedAddrs THEN Ok(m[uaddr]) ELSE Err("BadAddress")

TypeOK ==
    /\ mem \in [MappedAddrs -> MemValues]
    /\ table \subseteq Keys
    /\ owner_dead \in [Keys -> BOOLEAN]
    /\ pc \in [Threads -> {"idle", "enqueue", "blocked", "woken", "done",
                           "rq_wake", "rq_move"}]
    /\ DOMAIN wq = Keys
    /\ DOMAIN cur = Threads
    /\ last.err \in {"None", "Ok", "BadAddress", "WouldBlock", "InvalidInput",
                    "TimedOut", "OwnerDied", "Unsupported"}
    /\ nops \in 0..MaxOps
    /\ held \in [Threads -> SUBSET Locks]

\* a fresh process: no Futex exists, no thread has called
FutexInit ==
    /\ mem = [a \in MappedAddrs |-> 0]
    /\ table = {}
    /\ wq = [k \in Keys |-> <<>>]
    /\ owner_dead = [k \in Keys |-> FALSE]
    /\ pc = [t \in Threads |-> "idle"]
    /\ cur = [t \in Threads |-> NoCall]
    /\ last = NoResult
    /\ nops = MaxOps
    /\ held = [t \in Threads |-> {}]

(* ---------------------------------------------------------------------- *)
(* User pointer validator and page fault arbitrator (mm.rs)               *)
(* ---------------------------------------------------------------------- *)
PAGE_SIZE_4K == 4096
\* two pages of user space; the thread's calls stay inside them
Pages == {0, 1}
\* the bytes user space wrote, around the boundary of the two pages; every
\* other byte of user memory is 0
UserBytes == 4094 .. 4097
ByteValues == {0, 1}

READ == "READ"
WRITE == "WRITE"
\* the flags of a page's mapping: unmapped, read-only, read-write
PageFlags == {{}, {READ}, {READ, WRITE}}
\* line 173 and line 112
UserConstPtrFlags == {READ}
UserPtrFlags == {READ, WRITE}

\* element types: (size_of, align_of) of c_char and of u32
Types == {[size |-> 1, align |-> 1], [size |-> 4, align |-> 4]}
LayoutNew(T) == [size |-> T.size, align |-> T.align]
\* a usize as its upper and its lower 32 bits
Usize(hi, lo) == [hi |-> hi, lo |-> lo]
\* Layout::array::<T>(len) is Ok: len * size_of(T) does not exceed isize::MAX
\* (2^63 - 1); for a size that is a power of two this is a bound on the upper
\* 32 bits of len, which are negative as an i32 from 2^31 on
LayoutArrayFits(T, len) == len.hi >= 0 /\ len.hi <= I32Max \div T.size
\* the layout of an array that fits, of a length below 2^32
LayoutArray(T, len) == [size |-> T.size * len, align |-> T.align]

AlignDown4k(a) == a - (a % PAGE_SIZE_4K)
AlignUp4k(a) == AlignDown4k(a + PAGE_SIZE_4K - 1)
PageOf(a) == a \div PAGE_SIZE_4K

\* the Oracle (the process's address space)
RangePages(start, size) ==
    {p \in Pages : p * PAGE_SIZE_4K < start + size /\ start < (p + 1) * PAGE_SIZE_4K}
CanAccessRange(a, start, size, flags) ==
    \A p \in RangePages(start, size) : flags \subseteq a[p]
\* what can_access_range may answer: for an empty range the contract of the
\* Oracle fixes no answer
CanAccessAnswers(a, start, size, flags) ==
    IF size = 0 THEN BOOLEAN ELSE {CanAccessRange(a, start, size, flags)}
\* the Oracle's fault resolution: maps the page when the mapping allows the access
OracleHandlePageFault(a, vaddr, flags) == flags \subseteq a[PageOf(vaddr)]

CanAccessEvent(start, ok) == [ev |-> "can_access_range", addr |-> start, ok |-> ok]
PopulateEvent(start, ok) == [ev |-> "populate_area", addr |-> start, ok |-> ok]
FaultEvent(vaddr, ok) == [ev |-> "handle_page_fault", addr |-> vaddr, ok |-> ok]
ReadEvent(ptr) == [ev |-> "read", addr |-> ptr, ok |-> TRUE]

NoVCall ==
    [op |-> "none", start |-> 0, size |-> 0, align |-> 1, len |-> 0, flags |-> {},
     page |-> 0, count |-> 0, fault |-> 0, aspace |-> FALSE]
VCall(op, start, T, len, flags) ==
    [NoVCall EXCEPT !.op = op, !.start = start, !.size = T.size, !.align = T.align,
                    !.len = len, !.flags = flags]

RegionOps == {"get_as_ref", "get_as_mut", "get_as_slice", "get_as_mut_slice"}
ScanOps == {"get_as_null_terminated", "get_as_mut_null_terminated"}

ValidatorTypeOK ==
    /\ umem \in [UserBytes -> ByteValues]
    /\ acc \in [Pages -> PageFlags]
    /\ populated \subseteq Pages
    /\ is_thread \in BOOLEAN
    /\ marker \in BOOLEAN
    /\ vpc \in {"idle", "scan", "fault", "fatal", "panic"}
    /\ vcall.op \in {"none"} \cup RegionOps \cup ScanOps
    /\ ret.err \in {"None", "Ok", "BadAddress", "NoMemory"}
    /\ fault_ret \in {{}, {TRUE}, {FALSE}}
    /\ \A i \in DOMAIN trace :
          trace[i].ev \in {"can_access_range", "populate_area",
                           "handle_page_fault", "read"}
    /\ ncalls \in 0 .. MaxCalls

\* the addresses of the user buffers of the positional writes
BufAddrs == 0 .. 2
\* no positional write has been made: an empty file
IoIdle ==
    /\ file = <<>>
    /\ ubuf = [a \in BufAddrs |-> 0]
    /\ io_ret = NoResult
    /\ nio = MaxIo

\* no validator call has been made
ValidatorIdle ==
    /\ populated = {}
    /\ marker = FALSE
    /\ vpc = "idle"
    /\ vcall = NoVCall
    /\ ret = NoResult
    /\ fault_ret = {}
    /\ trace = <<>>
    /\ ncalls = MaxCalls

Init ==
    /\ FutexInit
    /\ ValidatorIdle
    /\ IoIdle
    /\ umem = [a \in UserBytes |-> 0]
    /\ acc = [p \in Pages |-> {}]
    /\ is_thread = TRUE

\* every content of the user bytes, every mapping of the two pages; a task
\* without a process has made no use of user memory
InitValidator ==
    /\ FutexInit
    /\ ValidatorIdle
    /\ IoIdle
    /\ umem \in [UserBytes -> ByteValues]
    /\ acc \in [Pages -> PageFlags]
    /\ is_thread \in BOOLEAN
    /\ is_thread \/ umem = [a \in UserBytes |-> 0]

\* a thread in the Outside-Access state starts a validator call
CanValidate ==
    /\ vpc = "idle"
    /\ is_thread
    /\ ncalls > 0

MisalignedNever(start, align) == FALSE
\* lines 18..21 and 41..44: start & (align - 1) != 0, align a power of two
Misaligned(start, align) == start % align # 0

InaccessibleNever(can) == FALSE
\* line 26: the answer of can_access_range
Inaccessible(can) == ~can

\* lines 30..32: the pages of [page_start, page_end)
PopulatedPages(start, size) ==
    {p \in Pages : /\ AlignDown4k(start) <= p * PAGE_SIZE_4K
                   /\ p * PAGE_SIZE_4K < AlignUp4k(start + size)}

\* lines 17..35; `can` is the answer of can_access_range, `pop` whether
\* populate_area succeeds
check_region(start, layout, access_flags, can, pop) ==
    IF Misaligned(start, layout.align)
    THEN [ret |-> Err("BadAddress"), trace |-> <<>>, pages |-> {}]
    ELSE IF Inaccessible(can)
    THEN [ret |-> Err("BadAddress"), trace |-> <<CanAccessEvent(start, can)>>,
          pages |-> {}]
    ELSE [ret |-> IF pop THEN Ok(0) ELSE Err("NoMemory"),
          trace |-> <<CanAccessEvent(start, can),
                      PopulateEvent(AlignDown4k(start), pop)>>,
          pages |-> IF pop THEN PopulatedPages(start, layout.size) ELSE {}]

\* a call of check_region and the return of the caller: Ok(reference) or the error
Validate(op, start, T, len, layout, access_flags) ==
    /\ CanValidate
    /\ \E can \in CanAccessAnswers(acc, start, layout.size, access_flags),
          pop \in BOOLEAN :
          LET r == check_region(start, layout, access_flags, can, pop)
          IN /\ ret' = IF IsOk(r.ret) THEN Ok(len) ELSE r.ret
             /\ trace' = r.trace
             /\ populated' = populated \cup r.pages
    /\ vcall' = VCall(op, start, T, len, access_flags)
    /\ ncalls' = ncalls - 1
    /\ fault_ret' = {}
    /\ UNCHANGED <<umem, acc, is_thread, marker, vpc, futexVars, ioVars>>

\* lines 187..190
get_as_ref(start, T) ==
    Validate("get_as_ref", start, T, 1, LayoutNew(T), UserConstPtrFlags)
\* lines 126..129
get_as_mut(start, T) ==
    Validate("get_as_mut", start, T, 1, LayoutNew(T), UserPtrFlags)
\* lines 134, 195: Layout::array::<T>(len).unwrap() on an Err: the thread
\* panics in the kernel before check_region is called
UnwrapPanics(op, start, T, len, access_flags) ==
    /\ CanValidate
    /\ vpc' = "panic"
    /\ vcall' = VCall(op, start, T, len.lo, access_flags)
    /\ ret' = NoResult
    /\ trace' = <<>>
    /\ ncalls' = ncalls - 1
    /\ fault_ret' = {}
    /\ UNCHANGED <<umem, acc, populated, is_thread, marker, futexVars, ioVars>>

\* lines 192..199; len is a usize
get_as_slice(start, T, len) ==
    IF LayoutArrayFits(T, len)
    THEN Validate("get_as_slice", start, T, len.lo, LayoutArray(T, len.lo),
                  UserConstPtrFlags)
    ELSE UnwrapPanics("get_as_slice", start, T, len, UserConstPtrFlags)
\* lines 131..138; len is a usize
get_as_mut_slice(start, T, len) ==
    IF LayoutArrayFits(T, len)
    THEN Validate("get_as_mut_slice", start, T, len.lo, LayoutArray(T, len.lo),
                  UserPtrFlags)
    ELSE UnwrapPanics("get_as_mut_slice", start, T, len, UserPtrFlags)

\* a byte of user memory
Byte(m, a) == IF a \in UserBytes THEN m[a] ELSE 0
\* line 77: the element at ptr equals T::default()
IsZeroElement(m, ptr, size) == \A i \in 0 .. size - 1 : Byte(m, ptr + i) = 0
ElementPtrUnscaled(c) == c.start + c.count
\* line 57: start.add(len)
ElementPtr(c) == c.start + c.count * c.size
NextPageSkips(page) == page + 2 * PAGE_SIZE_4K
\* line 72: page += PAGE_SIZE_4K
NextPage(page) == page + PAGE_SIZE_4K
\* the bytes of the element at ptr that lie in a page without backing
Unbacked(ptr, size, pop) ==
    {ptr + i : i \in {j \in 0 .. size - 1 : PageOf(ptr + j) \notin pop}}

MarkerKept(m) == m
\* access_user_memory: the marker is set for the closure and cleared when the
\* closure returns, with Ok or with Err
MarkerAfterAccess(m) == FALSE

\* lines 41..53: the alignment check, then the entry into access_user_memory
Scan(op, start, T, access_flags) ==
    /\ CanValidate
    /\ IF Misaligned(start, T.align)
       THEN /\ ret' = Err("BadAddress")
            /\ UNCHANGED <<vpc, marker>>
            /\ vcall' = VCall(op, start, T, 0, access_flags)
       ELSE /\ ret' = NoResult
            /\ vpc' = "scan"
            /\ marker' = TRUE
            /\ vcall' = [VCall(op, start, T, 0, access_flags)
                            EXCEPT !.page = AlignDown4k(start)]
    /\ trace' = <<>>
    /\ ncalls' = ncalls - 1
    /\ fault_ret' = {}
    /\ UNCHANGED <<umem, acc, populated, is_thread, futexVars, ioVars>>

\* lines 201..207
get_as_null_terminated(start, T) ==
    Scan("get_as_null_terminated", start, T, UserConstPtrFlags)
\* lines 140..146
get_as_mut_null_terminated(start, T) ==
    Scan("get_as_mut_null_terminated", start, T, UserPtrFlags)

AspaceGuardKept(guard) == guard
\* line 73: the guard `aspace` of line 67 is a local of the loop body and is
\* dropped, releasing the address-space lock, when the body ends
AspaceGuardDropped(guard) == FALSE

\* lines 58..73: one pass of the inner loop: the address space is locked
\* (vcall.aspace: the thread holds the guard of the lock, which is not
\* reentrant), the page the cursor has reached is checked against the Oracle
ScanPage ==
    /\ vpc = "scan"
    /\ ElementPtr(vcall) >= vcall.page
    /\ ~vcall.aspace
    /\ LET can == CanAccessRange(acc, vcall.page, PAGE_SIZE_4K, vcall.flags)
       IN /\ trace' = Append(trace, CanAccessEvent(vcall.page, can))
          /\ IF Inaccessible(can)
             THEN /\ ret' = Err("BadAddress")
                  /\ vpc' = "idle"
                  /\ marker' = MarkerAfterAccess(marker)
                  /\ UNCHANGED vcall
             ELSE /\ vcall' = [vcall EXCEPT !.page = NextPage(@),
                                             !.aspace = AspaceGuardDropped(TRUE)]
                  /\ UNCHANGED <<ret, vpc, marker>>
    /\ fault_ret' = {}
    /\ UNCHANGED <<umem, acc, populated, is_thread, ncalls, futexVars, ioVars>>

\* lines 77..80: ptr.read_volatile(): a page fault when a byte of the element
\* has no backing, else the element is read and compared with zero
ScanRead ==
    /\ vpc = "scan"
    /\ ElementPtr(vcall) < vcall.page
    /\ LET ptr == ElementPtr(vcall)
           un == Unbacked(ptr, vcall.size, populated)
       IN IF un # {}
          THEN /\ vpc' = "fault"
               /\ vcall' = [vcall EXCEPT !.fault = CHOOSE a \in un : \A b \in un : a <= b]
               /\ UNCHANGED <<ret, marker, trace>>
          ELSE /\ trace' = Append(trace, ReadEvent(ptr))
               /\ IF IsZeroElement(umem, ptr, vcall.size)
                  THEN /\ ret' = Ok(vcall.count)
                       /\ vpc' = "idle"
                       /\ marker' = MarkerAfterAccess(marker)
                       /\ UNCHANGED vcall
                  ELSE /\ vcall' = [vcall EXCEPT !.count = @ + 1]
                       /\ UNCHANGED <<ret, vpc, marker>>
    /\ fault_ret' = {}
    /\ UNCHANGED <<umem, acc, populated, is_thread, ncalls, futexVars, ioVars>>

\* is_accessing_user_memory(): the access-span marker of the thread
IsAccessingUserMemory(m) == m

OracleResolves(oracle) == TRUE
\* lines 248..251: the Oracle's boolean is the return value
OracleResult(oracle) == oracle

HandlePageFaultNoGate(m, thread, oracle) ==
    IF ~thread THEN [ret |-> FALSE, delegated |-> FALSE]
    ELSE [ret |-> oracle, delegated |-> TRUE]
\* lines 233..252; `oracle` is what the Oracle's handle_page_fault answers if
\* it is called
HandlePageFault(m, thread, oracle) ==
    IF ~IsAccessingUserMemory(m) THEN [ret |-> FALSE, delegated |-> FALSE]
    ELSE IF ~thread THEN [ret |-> FALSE, delegated |-> FALSE]
    ELSE [ret |-> OracleResult(oracle), delegated |-> TRUE]

\* the page fault trap: raised by the element read of the scan, or by kernel
\* code outside any validator call
handle_page_fault(vaddr, access_flags) ==
    /\ \/ vpc = "fault" /\ vaddr = vcall.fault /\ access_flags = {READ}
       \/ vpc = "idle"
    /\ LET oracle == OracleHandlePageFault(acc, vaddr, access_flags)
           r == HandlePageFault(marker, is_thread, oracle)
       IN /\ r.delegated => ~vcall.aspace
          /\ fault_ret' = {r.ret}
          /\ trace' = IF r.delegated THEN Append(trace, FaultEvent(vaddr, oracle))
                      ELSE trace
          /\ populated' = IF r.delegated /\ oracle
                          THEN populated \cup {PageOf(vaddr)} ELSE populated
          /\ vpc' = IF vpc = "fault" THEN (IF r.ret THEN "scan" ELSE "fatal") ELSE vpc
    /\ UNCHANGED <<umem, acc, is_thread, marker, vcall, ret, ncalls, futexVars, ioVars>>

(* ---------------------------------------------------------------------- *)
(* Wait queue engine (starry_core::futex::WaitQueue)                      *)
(* ---------------------------------------------------------------------- *)
WaitersOf(q) == {q[i].t : i \in DOMAIN q}

RemoveWaiter(q, t) == SelectSeq(q, LAMBDA e : e.t # t)

RECURSIVE WqWakeLifo(_, _, _)
WqWakeLifo(q, n, mask) ==
    IF q = <<>> \/ n = 0 THEN [woken |-> <<>>, rest |-> q]
    ELSE LET l == q[Len(q)]
             front == SubSeq(q, 1, Len(q) - 1)
         IN IF Intersects(l.mask, mask)
            THEN LET r == WqWakeLifo(front, CountDec(n), mask)
                 IN [woken |-> <<l.t>> \o r.woken, rest |-> r.rest]
            ELSE LET r == WqWakeLifo(front, n, mask)
                 IN [woken |-> r.woken, rest |-> r.rest \o <<l>>]

\* wq.wake(count, mask): walks the queue oldest first, wakes each waiter whose
\* mask intersects `mask` until `count` are woken; the others keep their order
RECURSIVE WqWake(_, _, _)
WqWake(q, n, mask) ==
    IF q = <<>> \/ n = 0 THEN [woken |-> <<>>, rest |-> q]
    ELSE LET h == Head(q)
         IN IF Intersects(h.mask, mask)
            THEN LET r == WqWake(Tail(q), CountDec(n), mask)
                 IN [woken |-> <<h.t>> \o r.woken, rest |-> r.rest]
            ELSE LET r == WqWake(Tail(q), n, mask)
                 IN [woken |-> r.woken, rest |-> <<h>> \o r.rest]

\* wq.requeue(count, target): the oldest `count` waiters leave the queue, still
\* blocked, and are appended to the target queue
WqRequeue(q, n) ==
    LET k == IF n < 0 THEN Len(q) ELSE Min(n, Len(q))
    IN [moved |-> SubSeq(q, 1, k), rest |-> SubSeq(q, k + 1, Len(q))]

SeqRange(s) == {s[i] : i \in DOMAIN s}

(* ---------------------------------------------------------------------- *)
(* sys_futex: helpers shared by the handlers                              *)
(* ---------------------------------------------------------------------- *)
\* the call of thread t returns r: a waiter has made its call, an operator
\* may call again
AfterCall(t) == IF t \in Waiters THEN "done" ELSE "idle"

Return(t, r) ==
    /\ pc' = [pc EXCEPT ![t] = AfterCall(t)]
    /\ cur' = [cur EXCEPT ![t] = NoCall]
    /\ last' = r

\* Waiters are interchangeable: waiter t calls after waiter t - 1 has called.
WaiterCanCall(t) ==
    /\ t \in Waiters
    /\ pc[t] = "idle"
    /\ t - 1 \in Waiters => pc[t - 1] # "idle"

\* Operators are interchangeable between calls: operator t calls only while
\* operator t - 1 is inside a call.
OperatorCanCall(t) ==
    /\ t \in Operators
    /\ pc[t] = "idle"
    /\ nops > 0
    /\ t - 1 \in Operators => pc[t - 1] # "idle"

\* the locals of a waiter that a wake on key k has made runnable: its timer,
\* if any, is disarmed
Woken(c, k) == [NoCall EXCEPT !.uaddr = c.uaddr, !.timer = c.timer, !.via = k]

(* ---------------------------------------------------------------------- *)
(* FUTEX_WAIT | FUTEX_WAIT_BITSET                                         *)
(* ---------------------------------------------------------------------- *)
FastPathNoCheck(m, uaddr, value) ==
    LET r == VmRead(m, uaddr) IN IF ~IsOk(r) THEN r ELSE Ok(0)
\* the fast path: Ok to go on, or the error the call returns at once
FastPath(m, uaddr, value) ==
    LET r == VmRead(m, uaddr)
    IN IF ~IsOk(r) THEN r
       ELSE IF r.val # value THEN Err("WouldBlock")
       ELSE Ok(0)

TryIntoTimeValueNoRange(ts) == Ok(TRUE)
\* timespec::try_into_time_value, time.rs lines 37..42
TryIntoTimeValue(ts) ==
    IF ts.tv_nsec < 0 \/ ts.tv_nsec > 999999999 \/ ts.tv_sec < 0
    THEN Err("InvalidInput")
    ELSE Ok(TRUE)

\* the timeout argument: Ok(FALSE) for NULL, Ok(TRUE) for a valid timespec
ReadTimeout(timeout) ==
    IF timeout.hi = 0 /\ timeout.lo = 0 THEN Ok(FALSE)
    ELSE IF ~timeout.readable THEN Err("BadAddress")
    ELSE TryIntoTimeValue(timeout)

WaitBitset(command, value3) ==
    IF command = FUTEX_WAIT_BITSET THEN value3 ELSE U32Max

WaitConditionTrue(m, uaddr, value) == TRUE
\* the recheck closure handed to wait_if
WaitCondition(m, uaddr, value) == VmRead(m, uaddr) = Ok(value)

\* lines 47..67: fast path, timeout, get_or_insert, bitset
SysFutexWait(t, uaddr, futex_op, value, timeout, value3) ==
    /\ WaiterCanCall(t)
    /\ Command(futex_op) \in WaitCommands
    /\ LET fast == FastPath(mem, uaddr, value)
           ts == ReadTimeout(timeout)
       IN IF ~IsOk(fast) THEN Return(t, fast) /\ UNCHANGED table
          ELSE IF ~IsOk(ts) THEN Return(t, Err(ts.err)) /\ UNCHANGED table
          ELSE /\ Free(t, {TableLock})
               /\ table' = table \cup {FutexKey(uaddr)}
               /\ pc' = [pc EXCEPT ![t] = "enqueue"]
               /\ cur' = [cur EXCEPT ![t] =
                            [NoCall EXCEPT !.uaddr = uaddr,
                                           !.value = value,
                                           !.bitset = WaitBitset(Command(futex_op), value3),
                                           !.timer = ts.val]]
               /\ last' = NoResult
    /\ UNCHANGED <<mem, wq, owner_dead, nops, held, mmVars, ioVars>>

OwnerDeadLoad(flag) == [old |-> flag, new |-> flag]
\* futex.owner_dead.swap(false, SeqCst)
OwnerDeadSwap(flag) == [old |-> flag, new |-> FALSE]

OwnerDeadSwapFirst(waited, flag) == OwnerDeadSwap(flag)
\* lines 69..76: the swap is reached only when wait_if returned Ok(true); a
\* wait that returns through line 72 or 73 never touches the flag
OwnerDeadAfterWaitIf(waited, flag) ==
    IF waited THEN OwnerDeadSwap(flag) ELSE [old |-> FALSE, new |-> flag]

\* lines 76..80
WaitResult(was_dead) == IF was_dead THEN Err("OwnerDied") ELSE Ok(0)

\* what sys_futex makes of wait_if returning Ok(false): lines 69..74
WaitIfFalse == Err("WouldBlock")

WaitIfErrorAsWouldBlock(e) == Err("WouldBlock")
\* what sys_futex makes of wait_if returning Err(e): the `?` of line 72
WaitIfError(e) == Err(e)

HeldWhileSuspendedQueue(k) == {QueueLock(k)}
\* the locks a waiter holds while it is suspended: wait_if releases the
\* queue's lock before it suspends the caller
HeldWhileSuspended(k) == {}

\* wait_if up to the suspension: under the queue's lock the caller is
\* enqueued and the condition is evaluated; a false condition takes the
\* caller off the queue again and wait_if returns Ok(false)
WaitIf(t) ==
    /\ pc[t] = "enqueue"
    /\ Free(t, {QueueLock(FutexKey(cur[t].uaddr))})
    /\ LET k == FutexKey(cur[t].uaddr)
       IN IF WaitCondition(mem, cur[t].uaddr, cur[t].value)
          THEN /\ wq' = [wq EXCEPT ![k] = Append(@, [t |-> t, mask |-> cur[t].bitset])]
               /\ pc' = [pc EXCEPT ![t] = "blocked"]
               /\ cur' = [cur EXCEPT ![t] =
                            [NoCall EXCEPT !.uaddr = cur[t].uaddr,
                                           !.timer = cur[t].timer]]
               /\ last' = NoResult
               /\ held' = [held EXCEPT ![t] = HeldWhileSuspended(k)]
               /\ UNCHANGED owner_dead
          ELSE /\ Return(t, WaitIfFalse)
               /\ UNCHANGED held
               /\ owner_dead' = [owner_dead EXCEPT ![k] =
                                   OwnerDeadAfterWaitIf(FALSE, @).new]
               /\ UNCHANGED wq
    /\ UNCHANGED <<mem, table, nops, mmVars, ioVars>>

\* the timeout of a suspended wait_if expires: the waiter takes itself off the
\* queue it is on and wait_if returns Err(TimedOut)
TimerFiresAfterWake(p) == p \in {"blocked", "woken"}
\* the timeout of wait_if expires for a waiter that is still queued: a wake
\* takes the waiter off the queue under the queue's lock and its timeout can
\* no longer expire
TimerFires(p) == p = "blocked"

WaitTimeout(t) ==
    /\ TimerFires(pc[t])
    /\ cur[t].timer
    /\ Free(t, {QueueLock(k) : k \in {j \in Keys : t \in WaitersOf(wq[j])}})
    /\ held' = [held EXCEPT ![t] = {}]
    /\ UNCHANGED <<mmVars, ioVars>>
    /\ wq' = [k \in Keys |-> RemoveWaiter(wq[k], t)]
    /\ Return(t, WaitIfError("TimedOut"))
    /\ LET k == FutexKey(cur[t].uaddr)
       IN owner_dead' = [owner_dead EXCEPT ![k] = OwnerDeadAfterWaitIf(FALSE, @).new]
    /\ UNCHANGED <<mem, table, nops>>

\* a woken waiter runs again: wait_if returns Ok(true), lines 76..80 follow.
\* The Futex is the one looked up at line 61, whatever queue the waiter was
\* moved to since
WaitResume(t) ==
    /\ pc[t] = "woken"
    /\ LET k == FutexKey(cur[t].uaddr)
           sw == OwnerDeadAfterWaitIf(TRUE, owner_dead[k])
       IN /\ owner_dead' = [owner_dead EXCEPT ![k] = sw.new]
          /\ Return(t, WaitResult(sw.old))
    /\ held' = [held EXCEPT ![t] = {}]
    /\ UNCHANGED <<mmVars, ioVars>>
    /\ UNCHANGED <<mem, table, wq, nops>>

(* ---------------------------------------------------------------------- *)
(* FUTEX_WAKE | FUTEX_WAKE_BITSET                                         *)
(* ---------------------------------------------------------------------- *)
WakeBitsetAll(command, value3) == U32Max
WakeBitset(command, value3) ==
    IF command = FUTEX_WAKE_BITSET THEN value3 ELSE U32Max

\* lines 83..92: futex_table.get(&key), then wq.wake on the Futex found
WakeOnKey(tbl, queues, k, count, bitset) ==
    IF k \in tbl THEN WqWake(queues[k], count, bitset)
    ELSE [woken |-> <<>>, rest |-> <<>>]

\* lines 82..95; yield_now changes no state of the model
SysFutexWake(t, uaddr, futex_op, value, value3) ==
    /\ OperatorCanCall(t)
    /\ Command(futex_op) \in WakeCommands
    /\ Free(t, {TableLock})
    /\ FutexKey(uaddr) \in table => Free(t, {QueueLock(FutexKey(uaddr))})
    /\ nops' = nops - 1
    /\ LET k == FutexKey(uaddr)
           w == WakeOnKey(table, wq, k, value, WakeBitset(Command(futex_op), value3))
       IN /\ wq' = IF k \in table THEN [wq EXCEPT ![k] = w.rest] ELSE wq
          /\ cur' = [u \in Threads |->
                            IF u \in SeqRange(w.woken) THEN Woken(cur[u], k) ELSE cur[u]]
          /\ pc' = [u \in Threads |->
                            IF u \in SeqRange(w.woken) THEN "woken" ELSE pc[u]]
          /\ last' = Ok(Len(w.woken))
    /\ UNCHANGED <<mem, table, owner_dead, held, mmVars, ioVars>>

(* ---------------------------------------------------------------------- *)
(* FUTEX_REQUEUE | FUTEX_CMP_REQUEUE                                      *)
(* ---------------------------------------------------------------------- *)
RequeueChecksNoCompare(m, command, uaddr, value, timeout, value3) ==
    LET a1 == AssertUnsigned(value)
        a2 == AssertUnsigned(AddrAsU32(timeout))
    IN IF ~IsOk(a1) THEN a1 ELSE a2
\* lines 97..101: the checks made before any queue is touched
RequeueChecks(m, command, uaddr, value, timeout, value3) ==
    LET a1 == AssertUnsigned(value)
        r == VmRead(m, uaddr)
        a2 == AssertUnsigned(AddrAsU32(timeout))
    IN IF ~IsOk(a1) THEN a1
       ELSE IF command = FUTEX_CMP_REQUEUE /\ ~IsOk(r) THEN r
       ELSE IF command = FUTEX_CMP_REQUEUE /\ r.val # value3 THEN Err("WouldBlock")
       ELSE a2

Key2FromUaddr(uaddr, uaddr2) == FutexKey(uaddr)
\* line 104: the key of the target queue
Key2(uaddr, uaddr2) == FutexKey(uaddr2)

\* lines 96..108: checks, futex_table.get(&key), table2.get_or_insert(&key2)
SysFutexRequeue(t, uaddr, futex_op, value, timeout, uaddr2, value3) ==
    /\ OperatorCanCall(t)
    /\ Command(futex_op) \in RequeueCommands
    /\ uaddr2 # uaddr
    /\ nops' = nops - 1
    /\ LET chk == RequeueChecks(mem, Command(futex_op), uaddr, value, timeout, value3)
       IN IF ~IsOk(chk) THEN Return(t, Err(chk.err)) /\ UNCHANGED table
          ELSE /\ Free(t, {TableLock})
               /\ table' = table \cup {Key2(uaddr, uaddr2)}
               /\ IF FutexKey(uaddr) \in table
                  THEN /\ pc' = [pc EXCEPT ![t] = "rq_wake"]
                       /\ cur' = [cur EXCEPT ![t] =
                                    [NoCall EXCEPT !.uaddr = uaddr,
                                                   !.uaddr2 = Key2(uaddr, uaddr2),
                                                   !.value = value,
                                                   !.value2 = chk.val]]
                       /\ last' = NoResult
                  ELSE Return(t, Ok(0))
    /\ UNCHANGED <<mem, wq, owner_dead, held, mmVars, ioVars>>

\* line 111: requeue only when the wake step woke `value` waiters
RequeueMoves(count, value) == count = value

\* line 110: futex.wq.wake(value, u32::MAX)
RequeueWake(t) ==
    /\ pc[t] = "rq_wake"
    /\ Free(t, {QueueLock(FutexKey(cur[t].uaddr))})
    /\ LET k == FutexKey(cur[t].uaddr)
           w == WqWake(wq[k], cur[t].value, U32Max)
           count == Len(w.woken)
       IN /\ wq' = [wq EXCEPT ![k] = w.rest]
          /\ IF RequeueMoves(count, cur[t].value)
             THEN /\ pc' = [u \in Threads |->
                              IF u = t THEN "rq_move"
                              ELSE IF u \in SeqRange(w.woken) THEN "woken" ELSE pc[u]]
                  /\ cur' = [u \in Threads |->
                              IF u = t THEN [cur[t] EXCEPT !.count = count]
                              ELSE IF u \in SeqRange(w.woken) THEN Woken(cur[u], k)
                              ELSE cur[u]]
                  /\ last' = NoResult
             ELSE /\ pc' = [u \in Threads |->
                              IF u = t THEN "idle"
                              ELSE IF u \in SeqRange(w.woken) THEN "woken" ELSE pc[u]]
                  /\ cur' = [u \in Threads |->
                              IF u = t THEN NoCall
                              ELSE IF u \in SeqRange(w.woken) THEN Woken(cur[u], k)
                              ELSE cur[u]]
                  /\ last' = Ok(count)
    /\ UNCHANGED <<mem, table, owner_dead, nops, held, mmVars, ioVars>>

\* line 112: count += futex.wq.requeue(value2, &futex2.wq)
RequeueMove(t) ==
    /\ pc[t] = "rq_move"
    /\ Free(t, {QueueLock(FutexKey(cur[t].uaddr)), QueueLock(cur[t].uaddr2)})
    /\ LET k == FutexKey(cur[t].uaddr)
           k2 == cur[t].uaddr2
           r == WqRequeue(wq[k], cur[t].value2)
       IN /\ wq' = [wq EXCEPT ![k] = r.rest, ![k2] = @ \o r.moved]
          /\ Return(t, Ok(cur[t].count + Len(r.moved)))
    /\ UNCHANGED <<mem, table, owner_dead, nops, held, mmVars, ioVars>>

(* ---------------------------------------------------------------------- *)
(* Any other command: line 117                                            *)
(* ---------------------------------------------------------------------- *)
SysFutexUnsupported(t, futex_op) ==
    /\ OperatorCanCall(t)
    /\ Command(futex_op) \notin WaitCommands \cup WakeCommands \cup RequeueCommands
    /\ nops' = nops - 1
    /\ Return(t, Err("Unsupported"))
    /\ UNCHANGED <<mem, table, wq, owner_dead, held, mmVars, ioVars>>

(* ---------------------------------------------------------------------- *)
(* The environment                                                        *)
(* ---------------------------------------------------------------------- *)
\* user space stores to a futex word
UserStore(a, v) ==
    /\ mem[a] # v
    /\ mem' = [mem EXCEPT ![a] = v]
    /\ last' = NoResult
    /\ UNCHANGED <<table, wq, owner_dead, pc, cur, nops, held, mmVars, ioVars>>

\* exit cleanup walking a robust list sets the flag of an existing Futex
SetOwnerDead(k) ==
    /\ k \in table
    /\ ~owner_dead[k]
    /\ owner_dead' = [owner_dead EXCEPT ![k] = TRUE]
    /\ last' = NoResult
    /\ UNCHANGED <<mem, table, wq, pc, cur, nops, held, mmVars, ioVars>>

(* ---------------------------------------------------------------------- *)
(* Specification                                                          *)
(* ---------------------------------------------------------------------- *)
\* The calls the threads make.  An argument the selected command does not
\* read is given one value only.
NullTimeout == [hi |-> 0, lo |-> 0, readable |-> FALSE, tv_sec |-> 0, tv_nsec |-> 0]
ValidTimeout == [hi |-> 0, lo |-> 64, readable |-> TRUE, tv_sec |-> 1, tv_nsec |-> 0]

Call(uaddr, futex_op, value, timeout, uaddr2, value3) ==
    [uaddr |-> uaddr, futex_op |-> futex_op, value |-> value, timeout |-> timeout,
     uaddr2 |-> uaddr2, value3 |-> value3]

(* ---------------------------------------------------------------------- *)
(* Specifications                                                         *)
(* ---------------------------------------------------------------------- *)
\* the steps of waiters, for the given FUTEX_WAIT / FUTEX_WAIT_BITSET calls
Waits(calls) ==
    \/ \E t \in Threads : \E c \in calls :
          SysFutexWait(t, c.uaddr, c.futex_op, c.value, c.timeout, c.value3)
    \/ \E t \in Threads : WaitIf(t)
    \/ \E t \in Threads : WaitResume(t)

Wakes(calls) ==
    \E t \in Threads : \E c \in calls :
        SysFutexWake(t, c.uaddr, c.futex_op, c.value, c.value3)

FirstWord == 16
SecondWord == 32

\* The wait path on one futex word: every expected value and timeout argument
\* of FUTEX_WAIT, an unmapped address, stores to the word, the owner_dead
\* flag, FUTEX_WAKE, unsupported commands.
WaitCalls ==
    {Call(a, op, v, to, 0, U32Max) :
        a \in {FirstWord} \cup UnmappedAddrs, op \in FutexOps(WaitCommands),
        v \in MemValues, to \in TimeoutArgs}
WaitWakeCalls ==
    {Call(a, op, n, NullTimeout, 0, 0) :
        a \in {FirstWord} \cup UnmappedAddrs, op \in FutexOps({FUTEX_WAKE}),
        n \in {0, 1, 2}}

Next ==
    \/ Waits(WaitCalls)
    \/ Wakes(WaitWakeCalls)
    \/ \E t \in Threads : WaitTimeout(t)
    \/ \E t \in Threads, op \in AllFutexOps : SysFutexUnsupported(t, op)
    \/ \E v \in MemValues : UserStore(FirstWord, v)
    \/ \E k \in Keys : SetOwnerDead(k)

Spec == Init /\ [][Next]_vars

\* Bitsets: waiters with and without a bitset on one word, every wake.
BitsetWaitCalls ==
    {Call(FirstWord, FUTEX_WAIT, 0, NullTimeout, 0, 0)}
    \cup
    {Call(FirstWord, op, 0, NullTimeout, 0, v3) :
        op \in FutexOps({FUTEX_WAIT_BITSET}), v3 \in Value3Args}
BitsetWakeCalls ==
    {Call(a, op, n, NullTimeout, 0, 0) :
        a \in Addrs, op \in FutexOps({FUTEX_WAKE}), n \in ValueArgs}
    \cup
    {Call(FirstWord, FUTEX_WAKE_BITSET, n, NullTimeout, 0, v3) :
        n \in ValueArgs, v3 \in Value3Args}

NextBitset ==
    \/ Waits(BitsetWaitCalls)
    \/ Wakes(BitsetWakeCalls)

SpecBitset == Init /\ [][NextBitset]_vars

\* Requeue from the first word to the second: waiters on both words, some
\* registered with an empty bitset, every count, both expected values.  The
\* operators call one after another.
OperatorsIdle == \A u \in Operators : pc[u] = "idle"

RequeueCounts == {0, 1, U32Max}
RequeueWaitCalls ==
    {Call(a, FUTEX_WAIT, 0, NullTimeout, 0, 0) : a \in MappedAddrs}
    \cup
    {Call(FirstWord, FUTEX_WAIT_BITSET, 0, NullTimeout, 0, 0)}
RequeueWakeCalls ==
    {Call(FirstWord, FUTEX_WAKE, 1, NullTimeout, 0, 0),
     Call(SecondWord, FUTEX_WAKE, 5, NullTimeout, 0, 0)}
RequeueCalls ==
    {Call(FirstWord, FUTEX_REQUEUE, n, to, SecondWord, 0) :
        n \in RequeueCounts, to \in RequeueTimeoutArgs}
    \cup
    {Call(a, FUTEX_CMP_REQUEUE, n, to, SecondWord, v3) :
        a \in {FirstWord} \cup UnmappedAddrs, n \in RequeueCounts,
        to \in RequeueTimeoutArgs, v3 \in MemValues}

NextRequeue ==
    \/ Waits(RequeueWaitCalls)
    \/ OperatorsIdle /\ Wakes(RequeueWakeCalls)
    \/ \E t \in Threads : \E c \in RequeueCalls :
          /\ OperatorsIdle
          /\ SysFutexRequeue(t, c.uaddr, c.futex_op, c.value, c.timeout, c.uaddr2, c.value3)
    \/ \E t \in Threads : RequeueWake(t)
    \/ \E t \in Threads : RequeueMove(t)

SpecRequeue == Init /\ [][NextRequeue]_vars

\* No lost wakeup.  W, the first waiter, calls FUTEX_WAIT(FirstWord, 0, NULL);
\* an operator K stores 1 to the word and then calls FUTEX_WAKE(FirstWord, n)
\* with n >= 1.  The other waiters wait on the second word.  The scheduler is
\* fair: a thread that can take a step of its call takes it.
TheWaiter == CHOOSE t \in Waiters : t - 1 \notin Waiters

LostWakeupWaitCalls(t) ==
    IF t = TheWaiter
    THEN {Call(FirstWord, FUTEX_WAIT, 0, NullTimeout, 0, 0)}
    ELSE {Call(SecondWord, FUTEX_WAIT, v, to, 0, 0) :
             v \in MemValues, to \in {NullTimeout, ValidTimeout}}
LostWakeupWakeCalls ==
    {Call(FirstWord, FUTEX_WAKE, n, NullTimeout, 0, 0) : n \in {1, 2, U32Max}}

\* K's store to the watched word, made before its first call
KStore(t) ==
    /\ OperatorCanCall(t)
    /\ nops = MaxOps
    /\ nops' = nops - 1
    /\ mem' = [mem EXCEPT ![FirstWord] = 1]
    /\ last' = NoResult
    /\ UNCHANGED <<table, wq, owner_dead, pc, cur, held, mmVars, ioVars>>

WStep(t) ==
    \/ \E c \in LostWakeupWaitCalls(t) :
          SysFutexWait(t, c.uaddr, c.futex_op, c.value, c.timeout, c.value3)
    \/ WaitIf(t)
    \/ WaitResume(t)

KStep(t) ==
    \/ KStore(t)
    \/ /\ nops < MaxOps
       /\ \E c \in LostWakeupWakeCalls :
             SysFutexWake(t, c.uaddr, c.futex_op, c.value, c.value3)

NextLostWakeup ==
    \/ \E t \in Waiters : WStep(t)
    \/ \E t \in Waiters : WaitTimeout(t)
    \/ \E t \in Operators : KStep(t)

SpecLostWakeup ==
    /\ Init
    /\ [][NextLostWakeup]_vars
    /\ \A t \in Waiters : WF_vars(WStep(t))
    /\ \A t \in Operators : WF_vars(KStep(t))

\* Concurrent waiters, wakers and requeuers on two words: FUTEX_WAIT with and
\* without a timeout, FUTEX_WAKE on both words, FUTEX_REQUEUE in both
\* directions; an operator calls while the other is between the steps of its
\* requeue.
ConcurrentWaitCalls ==
    {Call(a, FUTEX_WAIT, 0, to, 0, 0) :
        a \in {FirstWord, SecondWord}, to \in {NullTimeout, ValidTimeout}}
ConcurrentWakeCalls ==
    {Call(a, FUTEX_WAKE, 1, NullTimeout, 0, 0) : a \in {FirstWord, SecondWord}}
ConcurrentRequeueCalls ==
    {Call(FirstWord, FUTEX_REQUEUE, n, CountAsPointer(0, 1), SecondWord, 0) :
        n \in {0, 1}}
    \cup
    {Call(SecondWord, FUTEX_REQUEUE, 0, CountAsPointer(0, 1), FirstWord, 0)}

NextConcurrent ==
    \/ Waits(ConcurrentWaitCalls)
    \/ Wakes(ConcurrentWakeCalls)
    \/ \E t \in Threads : \E c \in ConcurrentRequeueCalls :
          SysFutexRequeue(t, c.uaddr, c.futex_op, c.value, c.timeout, c.uaddr2, c.value3)
    \/ \E t \in Threads : RequeueWake(t)
    \/ \E t \in Threads : RequeueMove(t)
    \/ \E t \in Threads : WaitTimeout(t)

SpecConcurrent == Init /\ [][NextConcurrent]_vars

\* The validator and the arbitrator: one validator call of a thread on
\* addresses around the boundary of the two pages, elements of one and of four
\* bytes, slices of zero to two elements, and page faults raised outside of it.
UserAddrs == 4092 .. 4099
RegionAddrs == {4092, 4094, 4095, 4096}
SliceLens == {Usize(0, n) : n \in {0, 1, 2}}
FaultFlags == {{READ}, {WRITE}}
\* the faults of the current step: the one the scan's read raised, or faults
\* of kernel code on both pages
FaultAddrs == IF vpc = "fault" THEN {vcall.fault} ELSE {4095, 4096}

NextValidator ==
    \/ \E start \in RegionAddrs, T \in Types : get_as_ref(start, T)
    \/ \E start \in RegionAddrs, T \in Types : get_as_mut(start, T)
    \/ \E start \in RegionAddrs, T \in Types, len \in SliceLens :
          get_as_slice(start, T, len)
    \/ \E start \in RegionAddrs, T \in Types, len \in SliceLens :
          get_as_mut_slice(start, T, len)
    \/ \E start \in UserAddrs, T \in Types : get_as_null_terminated(start, T)
    \/ \E start \in UserAddrs, T \in Types : get_as_mut_null_terminated(start, T)
    \/ ScanPage
    \/ ScanRead
    \/ \E vaddr \in FaultAddrs, access_flags \in FaultFlags :
          handle_page_fault(vaddr, access_flags)

SpecValidator == InitValidator /\ [][NextValidator]_vars

\* The thread inside the scan keeps running: it takes the next step of the
\* scan, and the fault its read raised is handled.
ScanStep ==
    \/ ScanPage
    \/ ScanRead
    \/ /\ vpc = "fault"
       /\ \E vaddr \in FaultAddrs, access_flags \in FaultFlags :
             handle_page_fault(vaddr, access_flags)

SpecValidatorFair == SpecValidator /\ WF_vars(ScanStep)

\* another thread of the process unmaps a page while the scan is under way
Munmap(p) ==
    /\ vpc \in {"scan", "fault"}
    /\ acc[p] # {}
    /\ acc' = [acc EXCEPT ![p] = {}]
    /\ populated' = populated \ {p}
    /\ fault_ret' = {}
    /\ UNCHANGED <<umem, is_thread, marker, vpc, vcall, ret, trace, ncalls, futexVars, ioVars>>

NextValidatorRace ==
    \/ NextValidator
    \/ \E p \in Pages : Munmap(p)

SpecValidatorRace == InitValidator /\ [][NextValidatorRace]_vars

(* ---------------------------------------------------------------------- *)
(* Properties                                                             *)
(* ---------------------------------------------------------------------- *)
\* the waiters that this step makes runnable
NewlyWoken == {u \in Threads : pc[u] = "blocked" /\ pc'[u] = "woken"}
\* the positions of queue q whose mask intersects `mask`
Eligible(q, mask) == {i \in DOMAIN q : Intersects(q[i].mask, mask)}
\* min(n, e) for a u32 count n
CountMin(n, e) == IF n < 0 THEN e ELSE Min(n, e)
\* every queue entry is a suspended thread
QueuedAreBlocked ==
    \A k \in Keys : \A i \in DOMAIN wq[k] : pc[wq[k][i].t] = "blocked"

\* K's FUTEX_WAKE has completed
KWakeDone == nops <= MaxOps - 2

\* C1: no lost wakeup: with W in FUTEX_WAIT(uaddr, V, no timeout) and K storing
\* a value other than V and then calling FUTEX_WAKE(uaddr, n >= 1), in every
\* interleaving W is not blocked once K's wake has completed, W eventually
\* returns, and it returns WouldBlock or success.
C1_NoLostWakeup ==
    /\ [](KWakeDone => pc[TheWaiter] # "blocked")
    /\ <>(pc[TheWaiter] = "done")
    /\ [][(pc[TheWaiter] # "done" /\ pc'[TheWaiter] = "done")
            => last' \in {Err("WouldBlock"), Ok(0)}]_vars
\* W passed the fast path, K stored and woke nobody, W's recheck then failed
C1_Witness ==
    /\ pc[TheWaiter] = "done"
    /\ last = Err("WouldBlock")
    /\ FutexKey(FirstWord) \in table
    /\ KWakeDone

\* C2: a FUTEX_WAIT / FUTEX_WAIT_BITSET call made while the word at uaddr
\* differs from the expected value returns WouldBlock in the step of the call:
\* the caller is not enqueued, not suspended, and no Futex is created.
C2_MismatchReturnsAtOnce ==
    [][\A t \in Waiters : \A c \in WaitCalls :
          (/\ WaiterCanCall(t)
           /\ pc'[t] # "idle"
           /\ c.uaddr \in MappedAddrs
           /\ mem[c.uaddr] # c.value
           /\ SysFutexWait(t, c.uaddr, c.futex_op, c.value, c.timeout, c.value3))
          => /\ last' = Err("WouldBlock")
             /\ pc'[t] = "done"
             /\ wq' = wq
             /\ table' = table]_vars
\* a wait returned WouldBlock and no wait ever got past the fast path
C2_Witness ==
    /\ last = Err("WouldBlock")
    /\ table = {}
    /\ pc[TheWaiter] = "done"

\* C3: FUTEX_WAKE / FUTEX_WAKE_BITSET with count n and mask m (all bits for
\* FUTEX_WAKE, value3 for FUTEX_WAKE_BITSET) wakes exactly min(n, E) waiters,
\* E being the number of waiters of the key whose mask intersects m; it
\* returns that number, wakes no waiter whose mask does not intersect m, and
\* returns 0 when E = 0 or the key has no Futex.
C3_WakeCount ==
    [][\A t \in Operators : \A c \in BitsetWakeCalls :
          (/\ OperatorCanCall(t)
           /\ nops' = nops - 1
           /\ SysFutexWake(t, c.uaddr, c.futex_op, c.value, c.value3))
          => LET k == FutexKey(c.uaddr)
                 m == IF Command(c.futex_op) = FUTEX_WAKE_BITSET
                      THEN c.value3 ELSE U32Max
                 E == IF k \in table THEN Cardinality(Eligible(wq[k], m)) ELSE 0
             IN /\ Cardinality(NewlyWoken) = CountMin(c.value, E)
                /\ last' = Ok(CountMin(c.value, E))
                /\ \A u \in NewlyWoken :
                      \E i \in Eligible(wq[k], m) : wq[k][i].t = u
                /\ \A u \in Threads \ NewlyWoken : pc'[u] = pc[u]]_vars
\* one wake woke one waiter and left two whose masks are 1 and 2
C3_Witness ==
    /\ last = Ok(1)
    /\ nops = MaxOps - 1
    /\ \E u \in Waiters : pc[u] = "woken"
    /\ Len(wq[FirstWord]) = 2
    /\ wq[FirstWord][1].mask = 1
    /\ wq[FirstWord][2].mask = 2

\* C4: wake order is FIFO among eligible waiters: when two waiters of the
\* queue are both eligible for the mask of a wake and the later-enqueued one
\* is woken by it, the earlier-enqueued one is woken by it too.
C4_WakeIsFifo ==
    [][\A t \in Operators : \A c \in BitsetWakeCalls :
          (/\ OperatorCanCall(t)
           /\ nops' = nops - 1
           /\ SysFutexWake(t, c.uaddr, c.futex_op, c.value, c.value3))
          => LET q == wq[FutexKey(c.uaddr)]
                 m == IF Command(c.futex_op) = FUTEX_WAKE_BITSET
                      THEN c.value3 ELSE U32Max
             IN \A i, j \in DOMAIN q :
                   (/\ i < j
                    /\ Intersects(q[i].mask, m)
                    /\ Intersects(q[j].mask, m)
                    /\ q[j].t \in NewlyWoken)
                   => q[i].t \in NewlyWoken]_vars
\* a wake woke one waiter and left one that every non-empty mask selects
C4_Witness ==
    /\ last = Ok(1)
    /\ nops = MaxOps - 1
    /\ \E u \in Waiters : pc[u] = "woken"
    /\ Len(wq[FirstWord]) = 1
    /\ wq[FirstWord][1].mask = U32Max

\* the call is a FUTEX_CMP_REQUEUE and the word at uaddr differs from value3
CmpMismatch(c) ==
    /\ Command(c.futex_op) = FUTEX_CMP_REQUEUE
    /\ c.uaddr \in MappedAddrs
    /\ mem[c.uaddr] # c.value3
\* the call returns in its first step with no queue and no waiter touched
FailsBeforeWakeOrMove(t) ==
    /\ pc'[t] = "idle"
    /\ wq' = wq
    /\ \A u \in Waiters : pc'[u] = pc[u]

\* C5 as stated: a FUTEX_CMP_REQUEUE called while the word at uaddr differs
\* from value3 fails with WouldBlock before any wake or move.
C5_MismatchIsWouldBlock ==
    [][\A t \in Operators : \A c \in RequeueCalls :
          (/\ OperatorCanCall(t)
           /\ nops' = nops - 1
           /\ CmpMismatch(c)
           /\ SysFutexRequeue(t, c.uaddr, c.futex_op, c.value, c.timeout,
                              c.uaddr2, c.value3))
          => /\ last' = Err("WouldBlock")
             /\ FailsBeforeWakeOrMove(t)]_vars
\* C5, amended: a FUTEX_CMP_REQUEUE called while the word at uaddr differs
\* from value3 fails before any wake or move: with InvalidInput when the wake
\* count is negative as an i32, with WouldBlock otherwise; every waiter stays
\* blocked where it is and the target queue gains no waiter.
C5_MismatchFailsFirst ==
    [][\A t \in Operators : \A c \in RequeueCalls :
          (/\ OperatorCanCall(t)
           /\ nops' = nops - 1
           /\ CmpMismatch(c)
           /\ SysFutexRequeue(t, c.uaddr, c.futex_op, c.value, c.timeout,
                              c.uaddr2, c.value3))
          => /\ last' = IF c.value < 0 THEN Err("InvalidInput")
                        ELSE Err("WouldBlock")
             /\ FailsBeforeWakeOrMove(t)]_vars
\* a requeue returned WouldBlock with waiters blocked on the source queue
C5_Witness ==
    /\ last = Err("WouldBlock")
    /\ nops < MaxOps
    /\ wq[FirstWord] # <<>>
    /\ wq[SecondWord] = <<>>

\* C6 as stated: a requeue with wake_count w and max_count m on a source
\* queue of S waiters wakes min(w, S) of them, then moves min(m, remaining)
\* of the remaining ones to the target queue, still blocked; the others stay.
C6_WakesThenMoves ==
    [][\A t \in Operators :
          /\ (pc[t] = "rq_wake" /\ pc'[t] # "rq_wake")
             => LET S == Len(wq[cur[t].uaddr])
                    w == cur[t].value
                IN /\ Cardinality(NewlyWoken) = Min(w, S)
                   /\ pc'[t] = "idle" => Min(cur[t].value2, S - Min(w, S)) = 0
          /\ (pc[t] = "rq_move" /\ pc'[t] # "rq_move")
             => LET a == cur[t].uaddr
                    b == cur[t].uaddr2
                    n == Min(cur[t].value2, Len(wq[a]))
                IN /\ wq'[b] = wq[b] \o SubSeq(wq[a], 1, n)
                   /\ wq'[a] = SubSeq(wq[a], n + 1, Len(wq[a]))
                   /\ NewlyWoken = {}]_vars

C8_OwnerDeathOnce ==
    [][\A t \in Waiters :
          (pc[t] = "woken" /\ pc'[t] = "done")
          => LET k == FutexKey(cur[t].uaddr)
             IN /\ last' = IF owner_dead[k] THEN Err("OwnerDied") ELSE Ok(0)
                /\ ~owner_dead'[k]
                /\ \A j \in Keys \ {k} : owner_dead'[j] = owner_dead[j]]_vars
\* one of two woken waiters has returned OwnerDied, the other has yet to return
C8_Witness ==
    /\ last = Err("OwnerDied")
    /\ ~owner_dead[FirstWord]
    /\ \E u \in Waiters : pc[u] = "woken" /\ cur[u].uaddr = FirstWord

\* C9: a wait that fails (WouldBlock from the fast path or the recheck,
\* TimedOut, an address or timeout-argument error) leaves every owner_dead
\* flag as it is; a set flag is cleared only by the step that returns
\* OwnerDied.
C9_FailedWaitKeepsFlag ==
    [][/\ \A t \in Waiters :
             (pc[t] \in {"idle", "enqueue", "blocked"} /\ pc'[t] = "done")
             => /\ last'.err \in {"WouldBlock", "TimedOut", "BadAddress",
                                  "InvalidInput"}
                /\ owner_dead' = owner_dead
       /\ \A k \in Keys :
             (owner_dead[k] /\ ~owner_dead'[k]) => last' = Err("OwnerDied")]_vars
\* a wait has timed out while the flag of its Futex is set
C9_Witness ==
    /\ last = Err("TimedOut")
    /\ owner_dead[FirstWord]

\* C10: a waiter whose timeout expires returns TimedOut and is on no queue
\* afterwards; the other waiters of every queue stay queued in the same
\* order and none of them is woken; a queue holds suspended waiters only, so
\* no later wake selects or counts the one that timed out.
C10_TimeoutRemovesOnlySelf ==
    /\ []QueuedAreBlocked
    /\ [][\A t \in Waiters :
             (pc[t] = "blocked" /\ pc'[t] = "done")
             => /\ cur[t].timer
                /\ last' = Err("TimedOut")
                /\ \A k \in Keys :
                      /\ t \notin WaitersOf(wq'[k])
                      /\ wq'[k] = SelectSeq(wq[k], LAMBDA e : e.t # t)
                /\ \A u \in Threads \ {t} : pc'[u] = pc[u]]_vars
\* a waiter timed out and two others are still queued
C10_Witness ==
    /\ last = Err("TimedOut")
    /\ Len(wq[FirstWord]) = 2

ValidatorCalled == ncalls' = ncalls - 1

\* C12: a validator call (get_as_ref, get_as_mut, get_as_slice,
\* get_as_mut_slice, the null-terminated scans) on an address that is not a
\* multiple of align_of(T) returns BadAddress whatever the mapping of the
\* pages: the Oracle is not consulted, no page is populated, no element is
\* read and no access span is opened.
C12_MisalignedIsBadAddress ==
    [][(ValidatorCalled /\ vcall'.start % vcall'.align # 0)
        => /\ ret' = Err("BadAddress")
           /\ trace' = <<>>
           /\ populated' = populated
           /\ vpc' = "idle"
           /\ ~marker']_vars
\* a scan of u32 elements from an address that is 2 modulo 4, both pages
\* mapped read-write
C12_Witness ==
    /\ vcall.op = "get_as_mut_null_terminated"
    /\ vcall.align = 4
    /\ vcall.start = 4094
    /\ \A p \in Pages : acc[p] = {READ, WRITE}
    /\ ret = Err("BadAddress")

\* the byte range of the call's region
VCallSize(c) == c.len * c.size

\* C13: check_region is all-or-nothing: when can_access_range reports the
\* byte range of an aligned region inaccessible (a page of it unmapped or
\* mapped without a required flag), the call returns BadAddress and
\* populate_area is not called: no page gets backing.
C13_InaccessibleIsBadAddress ==
    [][(/\ ValidatorCalled
        /\ vcall'.op \in RegionOps
        /\ vcall'.start % vcall'.align = 0
        /\ \/ /\ VCallSize(vcall') > 0
              /\ \E p \in RangePages(vcall'.start, VCallSize(vcall')) :
                    ~(vcall'.flags \subseteq acc[p])
           \/ /\ trace' # <<>>
              /\ ~trace'[1].ok)
        => /\ ret' = Err("BadAddress")
           /\ populated' = populated
           /\ \A i \in DOMAIN trace' : trace'[i].ev # "populate_area"]_vars
\* get_as_mut of an element in a page that is mapped read-only
C13_Witness ==
    /\ vcall.op = "get_as_mut"
    /\ acc[PageOf(vcall.start)] = {READ}
    /\ vcall.start % vcall.align = 0
    /\ ret = Err("BadAddress")
    /\ Len(trace) = 1
    /\ populated = {}

\* C14: get_as_slice and get_as_mut_slice with len = 0 succeed for every
\* address, misaligned addresses and inaccessible ranges included.
C14_EmptySliceSucceeds ==
    [][(/\ ValidatorCalled
        /\ vcall'.op \in {"get_as_slice", "get_as_mut_slice"}
        /\ vcall'.len = 0)
        => IsOk(ret')]_vars

\* element n of the latest call's scan is zero
ZeroAt(c, n) == \A i \in 0 .. c.size - 1 : Byte(umem, c.start + n * c.size + i) = 0
\* the index of the first zero element
FirstZero(c) == CHOOSE n \in 0 .. 8 : ZeroAt(c, n) /\ \A m \in 0 .. n - 1 : ~ZeroAt(c, m)
\* the latest call is a null-terminated scan from an aligned address
AlignedScan == vcall.op \in ScanOps /\ vcall.start % vcall.align = 0
\* the pages from the start of the scan on that the Oracle reports inaccessible
BadPages ==
    {p \in Pages : PageOf(vcall.start) <= p /\ ~(vcall.flags \subseteq acc[p])}
\* the addresses of the elements the scan has read
ReadAddrs == {trace[i].addr : i \in {j \in DOMAIN trace : trace[j].ev = "read"}}

\* C15: a scan from an aligned address, all pages from the page of the start
\* to the page of the first zero element accessible: the scan does not fail,
\* it returns the number of elements before the first zero element, and the
\* elements it has read are those up to and including that zero element.
C15_ScanLength ==
    (/\ AlignedScan
     /\ \A p \in BadPages : p > PageOf(vcall.start + FirstZero(vcall) * vcall.size))
    => /\ vpc # "fatal"
       /\ ReadAddrs \subseteq {vcall.start + n * vcall.size : n \in 0 .. FirstZero(vcall)}
       /\ vpc = "idle" =>
            /\ ret = Ok(FirstZero(vcall))
            /\ ReadAddrs = {vcall.start + n * vcall.size : n \in 0 .. FirstZero(vcall)}
\* the bytes A B C \0 across the page boundary: two in the first page, the
\* third and the terminator in the second
C15_Witness ==
    /\ vcall.op = "get_as_null_terminated"
    /\ vcall.start = 4094
    /\ vcall.size = 1
    /\ umem = [a \in UserBytes |-> IF a = 4097 THEN 0 ELSE 1]
    /\ vpc = "idle"
    /\ ret = Ok(3)

\* the first page from the start of the scan on that is inaccessible, and no
\* zero element lies before it
NoZeroBeforeBadPage ==
    /\ AlignedScan
    /\ BadPages # {}
    /\ LET bad == CHOOSE p \in BadPages : \A q \in BadPages : p <= q
       IN \A n \in 0 .. 8 :
             vcall.start + n * vcall.size < bad * PAGE_SIZE_4K => ~ZeroAt(vcall, n)

\* C16: when no zero element occurs before the first inaccessible page, the
\* scan reads no element of that page, it terminates, and it returns
\* BadAddress.
C16_ScanStopsAtBadPage ==
    /\ [](NoZeroBeforeBadPage =>
            /\ \A a \in ReadAddrs : PageOf(a) \notin BadPages
            /\ vpc # "fatal"
            /\ vpc = "idle" => ret = Err("BadAddress"))
    /\ (NoZeroBeforeBadPage /\ vpc # "idle")
          ~> (vpc = "idle" /\ ret = Err("BadAddress"))
\* two non-zero bytes at the end of the first page, the second page unmapped:
\* the scan has read both and failed at the check of the second page
C16_Witness ==
    /\ NoZeroBeforeBadPage
    /\ vcall.start = 4094
    /\ acc[1] = {}
    /\ ReadAddrs = {4094, 4095}
    /\ vpc = "idle"
    /\ ret = Err("BadAddress")

\* C17: the access-span marker is active only inside a null-terminated scan:
\* it is cleared when the scan returns, with a length or with BadAddress, and
\* it is never set by the region checks or by the fault handler.
C17_MarkerOnlyInsideScan ==
    /\ marker => vpc \in {"scan", "fault", "fatal"} /\ vcall.op \in ScanOps
    /\ vpc = "idle" => ~marker
\* the scan has returned BadAddress from the check of its second page
C17_Witness ==
    /\ vcall.op \in ScanOps
    /\ vpc = "idle"
    /\ ret = Err("BadAddress")
    /\ Len(trace) > 2
    /\ ~marker

\* C18: a page fault taken in the Outside-Access state returns false, the
\* Oracle's fault resolution is not called and no page gets backing.
C18_OutsideFaultUnhandled ==
    [][(fault_ret' # {} /\ ~marker)
        => /\ fault_ret' = {FALSE}
           /\ populated' = populated
           /\ trace' = trace]_vars
\* a fault of a thread outside any access, on pages the Oracle would map
C18_Witness ==
    /\ fault_ret = {FALSE}
    /\ ~marker
    /\ is_thread
    /\ vpc = "idle"
    /\ \A p \in Pages : acc[p] = {READ, WRITE}
    /\ populated = {}

\* C19: handle_page_fault returns true exactly when the thread is inside an
\* access, the task has a process and the Oracle resolves the fault at the
\* faulting address with the fault's flags; a task without a process gets
\* false.
C19_FaultResult ==
    [][fault_ret' # {}
        => fault_ret' = {/\ marker
                         /\ is_thread
                         /\ READ \in acc[PageOf(vcall.fault)]}]_vars
\* a page is unmapped between its check and the read of an element: the
\* Oracle does not resolve the fault of the read and the handler returns false
C19_Witness ==
    /\ fault_ret = {FALSE}
    /\ marker
    /\ is_thread
    /\ vpc = "fatal"

\* operations whose command bits are none of the six commands: FUTEX_FD, and
\* FUTEX_WAKE with a bit set above the clock flag
UnknownOps == {FUTEX_FD, FUTEX_WAKE + 2 * FUTEX_CLOCK_REALTIME}

\* C20: a sys_futex call whose command bits are none of WAIT, WAIT_BITSET,
\* WAKE, WAKE_BITSET, REQUEUE, CMP_REQUEUE returns Unsupported; the futex
\* table, the wait queues and the other threads are left as they were.
C20_UnknownIsUnsupported ==
    [][\A t \in Threads, op \in UnknownOps :
          (\/ /\ nops' = nops - 1
              /\ \/ SysFutexUnsupported(t, op)
                 \/ \E c \in WaitWakeCalls :
                       /\ c.futex_op = op
                       /\ SysFutexWake(t, c.uaddr, c.futex_op, c.value, c.value3)
           \/ /\ pc[t] = "idle"
              /\ pc'[t] # "idle"
              /\ \E c \in WaitCalls :
                    /\ c.futex_op = op
                    /\ SysFutexWait(t, c.uaddr, c.futex_op, c.value, c.timeout, c.value3))
          => /\ last' = Err("Unsupported")
             /\ wq' = wq
             /\ table' = table
             /\ owner_dead' = owner_dead
             /\ pc' = pc
             /\ cur' = cur]_vars
\* an unsupported call has returned while a waiter is suspended on a queue
C20_Witness ==
    /\ last = Err("Unsupported")
    /\ \E k \in Keys : wq[k] # <<>>
    /\ \E t \in Waiters : pc[t] = "blocked"

\* the threads suspended in a wait they called on uaddr
WaitingOn(uaddr) == {u \in Threads : pc[u] = "blocked" /\ cur[u].uaddr = uaddr}

WaitAddsKey ==
    \E t \in Threads :
        /\ pc[t] = "idle"
        /\ pc'[t] = "enqueue"
        /\ VmRead(mem, cur'[t].uaddr) = Ok(cur'[t].value)
        /\ table' = table \cup {FutexKey(cur'[t].uaddr)}
\* the step is a FUTEX_REQUEUE / FUTEX_CMP_REQUEUE call that passed its
\* checks; it adds the key of uaddr2
RequeueAddsKey ==
    \E t \in Operators : \E c \in RequeueCalls :
        /\ SysFutexRequeue(t, c.uaddr, c.futex_op, c.value, c.timeout, c.uaddr2, c.value3)
        /\ last'.err \in {"None", "Ok"}
        /\ table' = table \cup {FutexKey(c.uaddr2)}

StraddlingTypes == {[size |-> 6, align |-> 2]}

NextValidatorStraddle ==
    \/ \E start \in UserAddrs, T \in StraddlingTypes : get_as_null_terminated(start, T)
    \/ \E start \in UserAddrs, T \in StraddlingTypes : get_as_mut_null_terminated(start, T)
    \/ ScanPage
    \/ ScanRead
    \/ \E vaddr \in FaultAddrs, access_flags \in FaultFlags :
          handle_page_fault(vaddr, access_flags)

SpecValidatorStraddle == InitValidator /\ [][NextValidatorStraddle]_vars

\* the pages can_access_range has accepted before the i-th event of the call
ValidatedBefore(i) ==
    {PageOf(trace[j].addr) :
        j \in {k \in 1 .. i - 1 : trace[k].ev = "can_access_range" /\ trace[k].ok}}

\* C23: during the null-terminated scan every byte of every element read lies
\* in a page that can_access_range has accepted earlier in the same scan; a
\* read that faults on a byte is a read of that byte's page.
C23_ReadsInValidatedPages ==
    vcall.op \in ScanOps =>
       /\ \A i \in DOMAIN trace :
             trace[i].ev = "read" =>
                \A b \in 0 .. vcall.size - 1 :
                   PageOf(trace[i].addr + b) \in ValidatedBefore(i)
       /\ vpc \in {"fault", "fatal"} =>
             PageOf(vcall.fault) \in ValidatedBefore(Len(trace) + 1)

\* the trap of the fault the scan's element read raised
ScanFaultTrap ==
    \E access_flags \in FaultFlags : handle_page_fault(vcall.fault, access_flags)

\* C24: the scan does not hold the address-space lock when it reads an
\* element, and the page fault an element read raises can take the lock: its
\* handler runs.
C24_ReadsWithoutLock ==
    /\ (vpc = "scan" /\ ElementPtr(vcall) < vcall.page) => ~vcall.aspace
    /\ vpc = "fault" => ~vcall.aspace /\ ENABLED ScanFaultTrap
\* a scan that validated a page, faulted on an element of it, had the fault
\* resolved under the lock and read on to the zero element
C24_Witness ==
    /\ vcall.op \in ScanOps
    /\ ret.err = "Ok"
    /\ \E i, j \in DOMAIN trace :
          /\ i < j
          /\ trace[i].ev = "can_access_range" /\ trace[i].ok
          /\ trace[j].ev = "handle_page_fault" /\ trace[j].ok

\* the wake count, or the requeue count read from the timeout argument, is
\* negative as an i32
NegativeCount(c) == c.value < 0 \/ AddrAsU32(c.timeout) < 0
NegativeCountCalls == {c \in RequeueCalls : NegativeCount(c)}

\* C25 as stated: a FUTEX_REQUEUE or FUTEX_CMP_REQUEUE whose wake count or
\* requeue count is negative as an i32 returns InvalidInput, and no waiter is
\* woken or moved.
C25_NegativeCountIsInvalidInput ==
    [][\A t \in Operators : \A c \in NegativeCountCalls :
          (/\ nops' = nops - 1
           /\ pc[t] = "idle"
           /\ cur'[t] = NoCall
           /\ SysFutexRequeue(t, c.uaddr, c.futex_op, c.value, c.timeout,
                              c.uaddr2, c.value3))
          => /\ last' = Err("InvalidInput")
             /\ FailsBeforeWakeOrMove(t)
             /\ table' = table]_vars
\* C25, amended: such a call fails with no waiter woken or moved and no table
\* entry created: with InvalidInput when the wake count is negative; when only
\* the requeue count is negative, a FUTEX_CMP_REQUEUE whose word cannot be
\* read fails with the address error and one whose word differs from value3
\* with WouldBlock, every other call with InvalidInput.
C25_NegativeCountFails ==
    [][\A t \in Operators : \A c \in NegativeCountCalls :
          (/\ nops' = nops - 1
           /\ pc[t] = "idle"
           /\ cur'[t] = NoCall
           /\ SysFutexRequeue(t, c.uaddr, c.futex_op, c.value, c.timeout,
                              c.uaddr2, c.value3))
          => /\ last' = IF c.value < 0 THEN Err("InvalidInput")
                        ELSE IF c.futex_op = FUTEX_CMP_REQUEUE
                                /\ ~IsOk(VmRead(mem, c.uaddr))
                        THEN VmRead(mem, c.uaddr)
                        ELSE IF c.futex_op = FUTEX_CMP_REQUEUE
                                /\ VmRead(mem, c.uaddr).val # c.value3
                        THEN Err("WouldBlock")
                        ELSE Err("InvalidInput")
             /\ FailsBeforeWakeOrMove(t)
             /\ table' = table]_vars
\* a requeue was refused with InvalidInput while a waiter was blocked on the
\* source queue
C25_Witness ==
    /\ last = Err("InvalidInput")
    /\ nops < MaxOps
    /\ wq[FirstWord] # <<>>
    /\ \A u \in Waiters : pc[u] \in {"idle", "blocked"}

\* the requeue the claim compares with: wake up to w waiters of the source
\* queue, then move up to m of the remaining ones, whatever the wake woke
UnconditionalRequeue(src, dst, w, m) ==
    LET wk == WqWake(src, w, U32Max)
        mv == WqRequeue(wk.rest, m)
    IN [woken |-> SeqRange(wk.woken), src |-> mv.rest, dst |-> dst \o mv.moved]

\* C26: the requeue handler leaves the source queue, the target queue and the
\* woken set that the unconditional requeue leaves: when the handler returns
\* from its wake step, the queues and the woken set are those of the
\* unconditional requeue of the queues the wake step found, and a move step
\* moves up to max_count waiters of the source queue as it finds it.
C26_SameAsUnconditional ==
    [][\A t \in Operators :
          /\ (pc[t] = "rq_wake" /\ pc'[t] = "idle")
             => LET a == FutexKey(cur[t].uaddr)
                    b == cur[t].uaddr2
                    u == UnconditionalRequeue(wq[a], wq[b], cur[t].value, cur[t].value2)
                IN /\ NewlyWoken = u.woken
                   /\ wq'[a] = u.src
                   /\ wq'[b] = u.dst
          /\ (pc[t] = "rq_move" /\ pc'[t] = "idle")
             => LET a == FutexKey(cur[t].uaddr)
                    b == cur[t].uaddr2
                    u == UnconditionalRequeue(wq[a], wq[b], 0, cur[t].value2)
                IN /\ NewlyWoken = {}
                   /\ wq'[a] = u.src
                   /\ wq'[b] = u.dst]_vars

\* waiter u returns from its FUTEX_WAIT in this step
WaitReturns(u) == pc[u] # "done" /\ pc'[u] = "done"

UnreadableTimeout(to) == ~(to.hi = 0 /\ to.lo = 0) /\ ~to.readable
OutOfRangeTimeout(to) ==
    /\ ~(to.hi = 0 /\ to.lo = 0)
    /\ to.readable
    /\ (to.tv_sec < 0 \/ to.tv_nsec < 0 \/ to.tv_nsec > 999999999)
MappedWaitCalls == {c \in WaitCalls : c.uaddr \in MappedAddrs}
\* the call returns at once; no table, queue, flag or other thread changes
WaitFailsUnchanged(t) ==
    /\ pc' = [pc EXCEPT ![t] = "done"]
    /\ table' = table
    /\ wq' = wq
    /\ owner_dead' = owner_dead
    /\ mem' = mem

\* C28: a FUTEX_WAIT whose value check passes and whose timeout pointer is
\* unreadable returns the address error, one whose timespec is out of range
\* returns InvalidInput, and one whose value check fails returns WouldBlock
\* whatever its timeout argument; in each case the caller is not enqueued and
\* no futex table entry is created.
C28_BadTimeoutFailsUnchanged ==
    [][\A t \in Waiters : \A c \in MappedWaitCalls :
          (/\ pc[t] = "idle"
           /\ pc'[t] # "idle"
           /\ \/ mem[c.uaddr] # c.value
              \/ UnreadableTimeout(c.timeout)
              \/ OutOfRangeTimeout(c.timeout)
           /\ SysFutexWait(t, c.uaddr, c.futex_op, c.value, c.timeout, c.value3))
          => /\ WaitFailsUnchanged(t)
             /\ mem[c.uaddr] # c.value => last' = Err("WouldBlock")
             /\ (mem[c.uaddr] = c.value /\ UnreadableTimeout(c.timeout))
                => last' = Err("BadAddress")
             /\ (mem[c.uaddr] = c.value /\ OutOfRangeTimeout(c.timeout))
                => last' = Err("InvalidInput")]_vars
\* a wait was refused for its timespec and the futex table is still empty
C28_Witness ==
    /\ last = Err("InvalidInput")
    /\ table = {}
    /\ \E u \in Waiters : pc[u] = "done"
    /\ \A u \in Waiters : pc[u] \in {"idle", "done"}

(* ---------------------------------------------------------------------- *)
(* Slices of every length                                                 *)
(* ---------------------------------------------------------------------- *)

\* lengths a syscall argument can carry: usize::MAX and 2^61, next to the
\* short ones (a length from 2^32 up to the first one whose array does not
\* fit is not among them)
HugeLens == {Usize(U32Max, U32Max), Usize((I32Max \div 4) + 1, 0)}

NextValidatorLen ==
    \/ \E start \in RegionAddrs, T \in Types, len \in SliceLens \cup HugeLens :
          get_as_slice(start, T, len)
    \/ \E start \in RegionAddrs, T \in Types, len \in SliceLens \cup HugeLens :
          get_as_mut_slice(start, T, len)
    \/ \E vaddr \in FaultAddrs, access_flags \in FaultFlags :
          handle_page_fault(vaddr, access_flags)

SpecValidatorLen == InitValidator /\ [][NextValidatorLen]_vars

\* C29: get_as_slice and get_as_mut_slice return a value, Ok or an error, for
\* every address and every len: no call ends in a kernel panic.
C29_SliceReturnsValue ==
    vcall.op \in {"get_as_slice", "get_as_mut_slice"}
       => vpc = "idle" /\ ret.err \in {"Ok", "BadAddress", "NoMemory"}

(* ---------------------------------------------------------------------- *)
(* Positional writes (src/api/src/syscall/fs/io.rs)                       *)
(* ---------------------------------------------------------------------- *)

\* the file descriptor argument: the open file, or a descriptor not open
Fds == {"file", "closed"}
\* File::from_fd(fd)
FromFd(fd) == IF fd = "file" THEN Ok(0) ELSE Err("BadFileDescriptor")

\* an iovec: base address and length of one user buffer
IoVec(base, len) == [base |-> base, len |-> len]
\* the iovec arrays of the calls: one buffer, an empty buffer, two buffers
IovArgs ==
    {<<IoVec(0, 2)>>, <<IoVec(1, 1)>>, <<IoVec(0, 0)>>, <<IoVec(0, 1), IoVec(1, 2)>>}
Offsets == {0, 1}

\* the addresses of the buffers of an iovec array, in the order of transfer
RECURSIVE IovAddrs(_)
IovAddrs(iov) ==
    IF iov = <<>> THEN <<>>
    ELSE [i \in 1 .. Head(iov).len |-> Head(iov).base + i - 1] \o IovAddrs(Tail(iov))
\* the bytes user memory holds at these addresses
BytesAt(m, addrs) == [i \in DOMAIN addrs |-> m[addrs[i]]]

\* write_at of the file: the bytes replace the file's bytes from offset on,
\* the file grows as needed (a gap reads as zero); the count written
WriteAt(f, offset, bytes) ==
    IF bytes = <<>> THEN f
    ELSE [i \in 1 .. (IF Len(f) > offset + Len(bytes) THEN Len(f)
                      ELSE offset + Len(bytes)) |->
            IF i > offset /\ i <= offset + Len(bytes) THEN bytes[i - offset]
            ELSE IF i <= Len(f) THEN f[i] ELSE 0]
\* read_at of the file: up to n bytes of the file from offset on
ReadAt(f, offset, n) == SubSeq(f, offset + 1, Min(Len(f), offset + n))
\* user memory after the bytes read were stored through the buffers
StoreAt(m, addrs, bytes) ==
    [a \in DOMAIN m |->
        LET ks == {k \in DOMAIN bytes : addrs[k] = a}
        IN IF ks = {} THEN m[a]
           ELSE bytes[CHOOSE k \in ks : \A j \in ks : j <= k]]

IoReturn(r) ==
    /\ io_ret' = r
    /\ nio' = nio - 1
    /\ UNCHANGED <<futexVars, mmVars>>

\* lines 189..203
sys_pwrite64(fd, buf, len, offset) ==
    /\ nio > 0
    /\ IF len = 0 THEN IoReturn(Ok(0)) /\ UNCHANGED <<file, ubuf>>
       ELSE IF ~IsOk(FromFd(fd)) THEN IoReturn(FromFd(fd)) /\ UNCHANGED <<file, ubuf>>
       ELSE /\ file' = WriteAt(file, offset, BytesAt(ubuf, IovAddrs(<<IoVec(buf, len)>>)))
            /\ IoReturn(Ok(len))
            /\ UNCHANGED ubuf

\* lines 240..255: f.inner().read_at(&mut IoVectorBuf::new(iov, iovcnt)?.into_io(), offset)
sys_pwritev2(fd, iov, offset, flags) ==
    /\ nio > 0
    /\ IF ~IsOk(FromFd(fd)) THEN IoReturn(FromFd(fd)) /\ UNCHANGED <<file, ubuf>>
       ELSE LET addrs == IovAddrs(iov)
                bytes == ReadAt(file, offset, Len(addrs))
            IN /\ ubuf' = StoreAt(ubuf, addrs, bytes)
               /\ IoReturn(Ok(Len(bytes)))
               /\ UNCHANGED file

\* lines 214..221
sys_pwritev(fd, iov, offset) == sys_pwritev2(fd, iov, offset, 0)

\* every file of up to MaxFileLen bytes, every content of the user buffers
InitIo ==
    /\ FutexInit
    /\ ValidatorIdle
    /\ umem = [a \in UserBytes |-> 0]
    /\ acc = [p \in Pages |-> {}]
    /\ is_thread = TRUE
    /\ file \in UNION {[1 .. n -> ByteValues] : n \in 0 .. MaxFileLen}
    /\ ubuf \in [BufAddrs -> ByteValues]
    /\ io_ret = NoResult
    /\ nio = MaxIo

NextIo ==
    \/ \E fd \in Fds, buf \in {0, 1}, len \in 0 .. 2, offset \in Offsets :
          sys_pwrite64(fd, buf, len, offset)
    \/ \E fd \in Fds, iov \in IovArgs, offset \in Offsets :
          sys_pwritev(fd, iov, offset)
    \/ \E fd \in Fds, iov \in IovArgs, offset \in Offsets, flags \in {0, 1} :
          sys_pwritev2(fd, iov, offset, flags)

SpecIo == InitIo /\ [][NextIo]_vars

\* C30: sys_pwritev2 and sys_pwritev on the open file write the bytes of the
\* user buffers into the file at the offset, return the number of bytes
\* written and leave the user buffers unchanged; with one buffer the file is
\* left as sys_pwrite64 with that buffer and offset leaves it.
C30_WritesBuffersToFile ==
    [][\A iov \in IovArgs, offset \in Offsets :
          (sys_pwritev2("file", iov, offset, 0) \/ sys_pwritev("file", iov, offset))
          => /\ file' = WriteAt(file, offset, BytesAt(ubuf, IovAddrs(iov)))
             /\ io_ret' = Ok(Len(IovAddrs(iov)))
             /\ ubuf' = ubuf
             /\ Len(iov) = 1
                => sys_pwrite64("file", iov[1].base, iov[1].len, offset)]_vars

====
